---------------------------- MODULE Spec2Model ----------------------------
(***************************************************************************)
(* Model of the report-scoping hierarchy builder (the Board-Plan-aware     *)
(* buildHierarchicalRecordList with its helpers) and of the super-compact  *)
(* codec, src/unnamed/part_001 lines 1-651.                                *)
(*                                                                         *)
(* The record collections of the base are drawn by Init; one Build action  *)
(* applies buildHierarchicalRecordList to a selection and a date range,    *)
(* Encode applies toSuperCompactFormat to its result and Decode applies    *)
(* fromSuperCompactFormat to the compact form.                             *)
(*                                                                         *)
(* The report form that calls the builder (src/unnamed/part_002) and the   *)
(* cascading selector (src/frontend/index.js) follow the builder: their    *)
(* React state is in form, report, requests and picker, and each has a     *)
(* specification of its own.                                               *)
(*                                                                         *)
(* JavaScript values are represented as follows.  A string the code looks  *)
(* into (a record name) is a sequence of one-character strings; other      *)
(* strings are TLA+ strings.  A date cell holds a date without a time of   *)
(* day, a day number 1..MaxDate; an empty date cell (null) and an unset    *)
(* range bound ('') are NoDate.  A link cell is the sequence of the linked *)
(* record ids (null and [] behave alike in every place the code reads a    *)
(* link cell).  An object is a record whose DOMAIN is the set of its own   *)
(* properties; null is Null.                                               *)
(***************************************************************************)
EXTENDS Integers, Sequences, FiniteSets, TLC

VARIABLES base, range, phase, call, root, result, compact, restored,
          form, report, requests, picker

buildVars == <<base, range, phase, call, root, result, compact, restored>>

\* the React state of the report form and of the cascading selector
uiVars == <<form, report, requests, picker>>

vars == <<base, range, phase, call, root, result, compact, restored,
          form, report, requests, picker>>

-----------------------------------------------------------------------------
(* Bounds of the model *)

\* dates are the days 1..MaxDate
MaxDate == 2

\* the T/TA session records of the base
NumSessions == 2

\* getCellValue of an empty date cell is null, and `!x` holds of it
NoDate == 0

\* new Date(null).getTime(): the epoch, before every day 1..MaxDate
Epoch == 0

Null == [type |-> "null"]

Levels == <<"workplanSource", "goal", "objective", "activity">>

-----------------------------------------------------------------------------
(* Strings the code looks into *)

Str_FY24BoardPlan ==
    <<"F","Y","2","4"," ","B","o","a","r","d"," ","P","l","a","n">>
Str_AnnualPlan == <<"A","n","n","u","a","l"," ","P","l","a","n">>
Str_boardplan == <<"b","o","a","r","d"," ","p","l","a","n">>
Str_Unknown == <<"U","n","k","n","o","w","n">>
Str_Empty == <<>>

UpperCase == <<"A","B","C","D","E","F","G","H","I","J","K","L","M",
               "N","O","P","Q","R","S","T","U","V","W","X","Y","Z">>
LowerCase == <<"a","b","c","d","e","f","g","h","i","j","k","l","m",
               "n","o","p","q","r","s","t","u","v","w","x","y","z">>

\* String.prototype.toLowerCase
toLowerCase(s) ==
    [i \in 1..Len(s) |->
        IF \E k \in 1..Len(UpperCase) : UpperCase[k] = s[i]
        THEN LowerCase[CHOOSE k \in 1..Len(UpperCase) : UpperCase[k] = s[i]]
        ELSE s[i]]

\* String.prototype.includes
includes(s, needle) ==
    \E i \in 1..(Len(s) - Len(needle) + 1) :
        SubSeq(s, i, i + Len(needle) - 1) = needle

-----------------------------------------------------------------------------
(* Arrays *)

\* Array.prototype.find: the first element with the id, or Null (undefined)
find(coll, id) ==
    IF \E i \in 1..Len(coll) : coll[i].id = id
    THEN coll[CHOOSE i \in 1..Len(coll) :
                 coll[i].id = id /\ \A j \in 1..(i-1) : coll[j].id # id]
    ELSE Null

\* the value read from a link cell through a missing field: null
NoLinks == [linked |-> FALSE, ids |-> <<>>]

\* record.getCellValue(field?.id) on a link field: null when the field is
\* missing, the linked ids otherwise
getCellValue(record, field) ==
    IF field = Null THEN NoLinks ELSE [linked |-> TRUE, ids |-> record[field.id]]

\* A faulty variant of linksTo with the null guard the wrong way round
linksTo_MissingMatches(cell, id) ==
    ~cell.linked \/ \E i \in 1..Len(cell.ids) : cell.ids[i] = id

\* linked && linked.some(l => l.id === id)
linksTo(cell, id) == cell.linked /\ \E i \in 1..Len(cell.ids) : cell.ids[i] = id

RECURSIVE flatten(_)
flatten(ss) == IF ss = <<>> THEN <<>> ELSE Head(ss) \o flatten(Tail(ss))

setField(r, k, v) == [x \in DOMAIN r \cup {k} |-> IF x = k THEN v ELSE r[x]]

\* new Date(cell) as compared by < > and -
timeOf(cell) == IF cell = NoDate THEN Epoch ELSE cell

-----------------------------------------------------------------------------
(* Tables *)

workplanSourcesTable == [id |-> "tblWorkplanSources"]
goalsTable == [id |-> "tblGoals"]
objectivesTable == [id |-> "tblObjectives"]
activitiesTable == [id |-> "tblActivities"]

-----------------------------------------------------------------------------
(* Helpers of the builder *)

getRecordName(record, table) ==
    IF record.name # Str_Empty THEN record.name
    ELSE IF record.primary # Str_Empty THEN record.primary
    ELSE Str_Unknown

isBoardPlanName(workplanSource) ==
    includes(toLowerCase(workplanSource.name), Str_boardplan)

\* the first link of a link cell that is a Board Plan source, or Null
firstBoardPlanLink(cell, workplanSources) ==
    LET hit(i) == LET ws == find(workplanSources, cell.ids[i])
                  IN  ws # Null /\ isBoardPlanName(ws)
    IN  IF cell.linked /\ \E i \in 1..Len(cell.ids) : hit(i)
        THEN [type |-> "id",
              id |-> cell.ids[CHOOSE i \in 1..Len(cell.ids) :
                                hit(i) /\ \A j \in 1..(i-1) : ~hit(j)]]
        ELSE Null

\* the goal case: the goal's own link cell
boardPlanOfGoal(goal, b) ==
    firstBoardPlanLink(getCellValue(goal, b.fields.goalsLinkField),
                       b.workplanSources)

\* the objective case, "Check through goals": the first goal link, in order,
\* whose goal exists and has a Board Plan link
boardPlanThroughGoals(objective, b) ==
    LET cell == getCellValue(objective, b.fields.objectivesLinkField)
        hit(i) == LET goal == find(b.goals, cell.ids[i])
                  IN  goal # Null /\ boardPlanOfGoal(goal, b) # Null
    IN  IF cell.linked /\ \E i \in 1..Len(cell.ids) : hit(i)
        THEN boardPlanOfGoal(
                 find(b.goals, cell.ids[CHOOSE i \in 1..Len(cell.ids) :
                                          hit(i) /\ \A j \in 1..(i-1) : ~hit(j)]),
                 b)
        ELSE Null

findBoardPlanSource(recordType, recordId, b) ==
    CASE recordType = "workplanSource" ->
           LET ws == find(b.workplanSources, recordId)
           IN  IF ws # Null /\ isBoardPlanName(ws)
               THEN [type |-> "id", id |-> recordId] ELSE Null
      [] recordType = "goal" ->
           LET goal == find(b.goals, recordId)
           IN  IF goal = Null THEN Null
               ELSE boardPlanOfGoal(goal, b)
      [] recordType = "objective" ->
           LET objective == find(b.objectives, recordId)
           IN  IF objective = Null THEN Null
               ELSE LET direct ==
                          firstBoardPlanLink(
                              getCellValue(objective, b.fields.objectivesToSourcesLinkField),
                              b.workplanSources)
                    IN  IF direct # Null THEN direct
                        ELSE boardPlanThroughGoals(objective, b)
      [] recordType = "activity" -> Null
      [] OTHER -> Null

\* A faulty variant of isActivityInDateRange with exclusive bounds
isActivityInDateRange_Exclusive(activity, startDate, endDate) ==
    IF startDate = NoDate /\ endDate = NoDate THEN TRUE
    ELSE IF activity.start = NoDate \/ activity.end = NoDate THEN FALSE
    ELSE IF startDate # NoDate /\ timeOf(activity.end) <= timeOf(startDate)
         THEN FALSE
    ELSE IF endDate # NoDate /\ timeOf(activity.start) >= timeOf(endDate)
         THEN FALSE
    ELSE TRUE

isActivityInDateRange(activity, startDate, endDate) ==
    IF startDate = NoDate /\ endDate = NoDate THEN TRUE
    ELSE IF activity.start = NoDate \/ activity.end = NoDate THEN FALSE
    ELSE IF startDate # NoDate /\ timeOf(activity.end) < timeOf(startDate)
         THEN FALSE
    ELSE IF endDate # NoDate /\ timeOf(activity.start) > timeOf(endDate)
         THEN FALSE
    ELSE TRUE

createRecordObject(record, table, recordType) ==
    [tableId |-> table.id,
     recordId |-> record.id,
     type |-> recordType,
     recordName |-> getRecordName(record, table),
     ttaSessions |-> <<>>,
     children |-> <<>>]

\* A faulty variant of sessionMatches that lets a session without a date pass
sessionMatches_KeepsUndated(session, record, ttaSessionsLinkField, startDate, endDate) ==
    IF ~linksTo(getCellValue(session, ttaSessionsLinkField), record.id) THEN FALSE
    ELSE IF startDate = NoDate /\ endDate = NoDate THEN TRUE
    ELSE IF startDate # NoDate /\ timeOf(session.date) < timeOf(startDate)
         THEN FALSE
    ELSE IF endDate # NoDate /\ timeOf(session.date) > timeOf(endDate)
         THEN FALSE
    ELSE TRUE

\* the filter callback of createRecordObjectWithTTA
sessionMatches(session, record, ttaSessionsLinkField, startDate, endDate) ==
    IF ~linksTo(getCellValue(session, ttaSessionsLinkField), record.id) THEN FALSE
    ELSE IF startDate = NoDate /\ endDate = NoDate THEN TRUE
    ELSE IF session.date = NoDate THEN FALSE
    ELSE IF startDate # NoDate /\ timeOf(session.date) < timeOf(startDate)
         THEN FALSE
    ELSE IF endDate # NoDate /\ timeOf(session.date) > timeOf(endDate)
         THEN FALSE
    ELSE TRUE

\* Array.prototype.sort with the comparator new Date(dateA) - new Date(dateB):
\* a stable sort, ascending by time
RECURSIVE sortByDate(_)
sortByDate(ss) ==
    IF ss = <<>> THEN <<>>
    ELSE LET front == sortByDate(SubSeq(ss, 1, Len(ss) - 1))
             last == ss[Len(ss)]
             keep(x) == timeOf(x.date) <= timeOf(last.date)
             move(x) == ~keep(x)
         IN  SelectSeq(front, keep) \o <<last>> \o SelectSeq(front, move)

createRecordObjectWithTTA(record, table, recordType, ttaSessions, ttaSessionsLinkField, startDate, endDate) ==
    LET match(session) ==
            sessionMatches(session, record, ttaSessionsLinkField, startDate, endDate)
        ttaForRecord == SelectSeq(ttaSessions, match)
        sorted == sortByDate(ttaForRecord)
        ttaData == [i \in 1..Len(sorted) |->
                      [id |-> sorted[i].id, summary |-> sorted[i].summary]]
    IN  [tableId |-> table.id,
         recordId |-> record.id,
         type |-> recordType,
         recordName |-> getRecordName(record, table),
         ttaSessions |-> ttaData,
         children |-> <<>>]

\* A faulty variant of createActivityObjectWithDetails that starts from createRecordObject
\* and so keeps its empty ttaSessions
createActivityObjectWithDetails_KeepsSessions(activity, table) ==
    [tableId |-> table.id,
     recordId |-> activity.id,
     type |-> "activity",
     recordName |-> getRecordName(activity, table),
     ttaSessions |-> <<>>,
     activityComments |-> activity.comments,
     activityStatus |-> activity.status,
     children |-> <<>>]

createActivityObjectWithDetails(activity, table) ==
    [tableId |-> table.id,
     recordId |-> activity.id,
     type |-> "activity",
     recordName |-> getRecordName(activity, table),
     activityComments |-> activity.comments,
     activityStatus |-> activity.status,
     children |-> <<>>]

-----------------------------------------------------------------------------
(* Rollup and pruning.  The code mutates the tree in place; each operator  *)
(* returns the node as the code leaves it.                                 *)

has(node, k) == k \in DOMAIN node

\* the sessions of the activities of a subtree, in the order traverse visits them
RECURSIVE sessionsInOrder(_)
sessionsInOrder(n) ==
    (IF n.type = "activity" /\ has(n, "ttaSessions") /\ Len(n.ttaSessions) > 0
     THEN n.ttaSessions ELSE <<>>)
    \o flatten([i \in 1..Len(n.children) |-> sessionsInOrder(n.children[i])])

\* Array.from(ttaMap.values()) after ttaMap.set of every id not yet in the map
RECURSIVE firstById(_)
firstById(ss) ==
    IF ss = <<>> THEN <<>>
    ELSE LET front == firstById(SubSeq(ss, 1, Len(ss) - 1))
             last == ss[Len(ss)]
         IN  IF \E i \in 1..Len(front) : front[i].id = last.id
             THEN front ELSE Append(front, last)

\* A faulty variant of collectTTAFromActivities that looks at the node's children only
collectTTAFromActivities_Shallow(node) ==
    firstById(flatten([i \in 1..Len(node.children) |->
        IF node.children[i].type = "activity" /\ has(node.children[i], "ttaSessions")
        THEN node.children[i].ttaSessions ELSE <<>>]))

\* the map's values when a repeated id is deleted and set again
RECURSIVE lastById(_)
lastById(ss) ==
    IF ss = <<>> THEN <<>>
    ELSE LET last == ss[Len(ss)]
             other(x) == x.id # last.id
         IN  Append(SelectSeq(lastById(SubSeq(ss, 1, Len(ss) - 1)), other), last)

\* A faulty variant of collectTTAFromActivities in which the last occurrence
\* of an id takes its place
collectTTAFromActivities_LastWins(node) == lastById(sessionsInOrder(node))

\* A faulty variant of collectTTAFromActivities that keeps every occurrence
collectTTAFromActivities_EveryOccurrence(node) == sessionsInOrder(node)

collectTTAFromActivities(node) == firstById(sessionsInOrder(node))

RECURSIVE collectActivityDetails(_)
collectActivityDetails(n) ==
    (IF n.type = "activity"
        /\ (  (has(n, "activityComments") /\ n.activityComments # "")
           \/ (has(n, "activityStatus") /\ n.activityStatus # ""))
     THEN <<[recordName |-> n.recordName,
             comments |-> IF has(n, "activityComments") THEN n.activityComments ELSE "",
             status |-> IF has(n, "activityStatus") THEN n.activityStatus ELSE ""]>>
     ELSE <<>>)
    \o flatten([i \in 1..Len(n.children) |-> collectActivityDetails(n.children[i])])

\* A faulty variant of addInheritedTTA that attaches the sessions at every
\* level it passes
RECURSIVE addInheritedTTA_EveryLevel(_, _)
addInheritedTTA_EveryLevel(node, bottomLevel) ==
    IF node.type # "activity" /\ Len(node.children) > 0
    THEN LET visited == [node EXCEPT !.children =
                            [i \in 1..Len(node.children) |->
                                addInheritedTTA_EveryLevel(node.children[i], bottomLevel)]]
             collectedTTA == collectTTAFromActivities(visited)
         IN  IF Len(collectedTTA) > 0
             THEN setField(visited, "ttaSessions", collectedTTA)
             ELSE visited
    ELSE node

RECURSIVE addInheritedTTA(_, _)
addInheritedTTA(node, bottomLevel) ==
    IF node.type # "activity" /\ Len(node.children) > 0
    THEN LET visited == [node EXCEPT !.children =
                            [i \in 1..Len(node.children) |->
                                addInheritedTTA(node.children[i], bottomLevel)]]
             collectedTTA == collectTTAFromActivities(visited)
         IN  IF node.type = bottomLevel /\ Len(collectedTTA) > 0
             THEN setField(visited, "ttaSessions", collectedTTA)
             ELSE visited
    ELSE node

\* A faulty variant of addInheritedActivityDetails that attaches the details
\* at every level it passes
RECURSIVE addInheritedActivityDetails_EveryLevel(_, _)
addInheritedActivityDetails_EveryLevel(node, bottomLevel) ==
    IF node.type # "activity" /\ Len(node.children) > 0
    THEN LET visited == [node EXCEPT !.children =
                            [i \in 1..Len(node.children) |->
                                addInheritedActivityDetails_EveryLevel(node.children[i], bottomLevel)]]
             collectedActivities == collectActivityDetails(visited)
         IN  IF Len(collectedActivities) > 0
             THEN setField(visited, "activityDetails", collectedActivities)
             ELSE visited
    ELSE node

RECURSIVE addInheritedActivityDetails(_, _)
addInheritedActivityDetails(node, bottomLevel) ==
    IF node.type # "activity" /\ Len(node.children) > 0
    THEN LET visited == [node EXCEPT !.children =
                            [i \in 1..Len(node.children) |->
                                addInheritedActivityDetails(node.children[i], bottomLevel)]]
             collectedActivities == collectActivityDetails(visited)
         IN  IF node.type = bottomLevel /\ Len(collectedActivities) > 0
             THEN setField(visited, "activityDetails", collectedActivities)
             ELSE visited
    ELSE node

\* A faulty variant of removeChildrenAtBottomLevel that prunes the root only
removeChildrenAtBottomLevel_RootOnly(node, bottomLevel) ==
    IF Len(node.children) > 0 /\ node.type = bottomLevel
    THEN [node EXCEPT !.children = <<>>] ELSE node

RECURSIVE removeChildrenAtBottomLevel(_, _)
removeChildrenAtBottomLevel(node, bottomLevel) ==
    IF Len(node.children) > 0
    THEN IF node.type = bottomLevel
         THEN [node EXCEPT !.children = <<>>]
         ELSE [node EXCEPT !.children =
                  [i \in 1..Len(node.children) |->
                      removeChildrenAtBottomLevel(node.children[i], bottomLevel)]]
    ELSE node

-----------------------------------------------------------------------------
(* buildHierarchicalRecordList.  b is the record collections, a the        *)
(* selection: topLevel, topLevelId, bottomLevel, startDate, endDate.       *)

\* for (const activity of linkedActivities): the leaf of one activity
activityLeaf(activity, isBoardPlan, b, a) ==
    IF isBoardPlan
    THEN createActivityObjectWithDetails(activity, activitiesTable)
    ELSE createRecordObjectWithTTA(activity, activitiesTable, "activity",
                                   b.ttaSessions, b.fields.ttaSessionsLinkField,
                                   a.startDate, a.endDate)

\* activities.filter(...): linked to the objective and in the date range
linkedActivities(objectiveId, b, a) ==
    LET test(activity) ==
            /\ linksTo(getCellValue(activity, b.fields.activitiesLinkField), objectiveId)
            /\ isActivityInDateRange(activity, a.startDate, a.endDate)
    IN  SelectSeq(b.activities, test)

\* children pushed on a node for the activities linked to an objective
activityChildren(objectiveId, isBoardPlan, b, a) ==
    LET acts == linkedActivities(objectiveId, b, a)
    IN  [i \in 1..Len(acts) |-> activityLeaf(acts[i], isBoardPlan, b, a)]

\* A faulty variant of objectiveNode that passes 'goal' as the record type
objectiveNode_TypedGoal(objective, isBoardPlan, b, a) ==
    [createRecordObject(objective, objectivesTable, "goal")
        EXCEPT !.children = activityChildren(objective.id, isBoardPlan, b, a)]

objectiveNode(objective, isBoardPlan, b, a) ==
    [createRecordObject(objective, objectivesTable, "objective")
        EXCEPT !.children = activityChildren(objective.id, isBoardPlan, b, a)]

\* objectives.filter(...) on objectivesLinkField
objectivesOfGoal(goalId, b) ==
    LET test(obj) == linksTo(getCellValue(obj, b.fields.objectivesLinkField), goalId)
    IN  SelectSeq(b.objectives, test)

\* objectives.filter(...) on objectivesToSourcesLinkField
objectivesOfSource(sourceId, b) ==
    LET test(obj) ==
            linksTo(getCellValue(obj, b.fields.objectivesToSourcesLinkField), sourceId)
    IN  SelectSeq(b.objectives, test)

\* goals.filter(...) on goalsLinkField
goalsOfSource(sourceId, b) ==
    LET test(goal) == linksTo(getCellValue(goal, b.fields.goalsLinkField), sourceId)
    IN  SelectSeq(b.goals, test)

\* A faulty variant of objectiveChildren that puts each node in front of the
\* ones before it
objectiveChildren_Unshift(objs, isBoardPlan, b, a) ==
    [i \in 1..Len(objs) |-> objectiveNode(objs[Len(objs) + 1 - i], isBoardPlan, b, a)]

objectiveChildren(objs, isBoardPlan, b, a) ==
    [i \in 1..Len(objs) |-> objectiveNode(objs[i], isBoardPlan, b, a)]

goalNode(goal, isBoardPlan, b, a) ==
    [createRecordObject(goal, goalsTable, "goal")
        EXCEPT !.children =
            objectiveChildren(objectivesOfGoal(goal.id, b), isBoardPlan, b, a)]

\* A faulty variant of workplanSourceRoot that keeps the directly linked objectives
\* beside the goals
workplanSourceRoot_Mixed(topRecord, isBoardPlan, b, a) ==
    LET linkedGoals == goalsOfSource(a.topLevelId, b)
    IN  [createRecordObject(topRecord, workplanSourcesTable, "workplanSource")
            EXCEPT !.children =
                [i \in 1..Len(linkedGoals) |->
                    goalNode(linkedGoals[i], isBoardPlan, b, a)]
                \o objectiveChildren(objectivesOfSource(a.topLevelId, b),
                                     isBoardPlan, b, a)]

\* A faulty variant of workplanSourceRoot that looks at the directly linked
\* objectives first and at the goals only when there is none
workplanSourceRoot_ObjectivesFirst(topRecord, isBoardPlan, b, a) ==
    LET linkedGoals == goalsOfSource(a.topLevelId, b)
        linkedObjectives == objectivesOfSource(a.topLevelId, b)
    IN  [createRecordObject(topRecord, workplanSourcesTable, "workplanSource")
            EXCEPT !.children =
                IF Len(linkedObjectives) > 0
                THEN objectiveChildren(linkedObjectives, isBoardPlan, b, a)
                ELSE [i \in 1..Len(linkedGoals) |->
                        goalNode(linkedGoals[i], isBoardPlan, b, a)]]

\* case 'workplanSource', after the top record is found
workplanSourceRoot(topRecord, isBoardPlan, b, a) ==
    LET linkedGoals == goalsOfSource(a.topLevelId, b)
    IN  [createRecordObject(topRecord, workplanSourcesTable, "workplanSource")
            EXCEPT !.children =
                IF Len(linkedGoals) > 0
                THEN [i \in 1..Len(linkedGoals) |->
                        goalNode(linkedGoals[i], isBoardPlan, b, a)]
                ELSE objectiveChildren(objectivesOfSource(a.topLevelId, b),
                                       isBoardPlan, b, a)]

isBoardPlanBuild(b, a) == findBoardPlanSource(a.topLevel, a.topLevelId, b) # Null

\* A faulty variant of activityRoot that skips the date check
activityRoot_Unfiltered(topRecord, isBoardPlan, b, a) ==
    activityLeaf(topRecord, isBoardPlan, b, a)

\* case 'activity', after the top record is found
activityRoot(topRecord, isBoardPlan, b, a) ==
    IF isActivityInDateRange(topRecord, a.startDate, a.endDate)
    THEN activityLeaf(topRecord, isBoardPlan, b, a)
    ELSE Null

\* A faulty variant of constructed whose default case falls into case 'workplanSource'
constructed_DefaultIsSource(b, a) ==
    LET isBoardPlan == findBoardPlanSource(a.topLevel, a.topLevelId, b) # Null
        topRecord == find(b.workplanSources, a.topLevelId)
    IN  IF a.topLevel \in {"goal", "objective", "activity"} \/ topRecord = Null
        THEN Null
        ELSE workplanSourceRoot(topRecord, isBoardPlan, b, a)

\* the switch: Null where the code returns null, else the node the case
\* leaves in root (case 'activity': the node it returns)
constructed(b, a) ==
    LET isBoardPlan == isBoardPlanBuild(b, a)
    IN  CASE a.topLevel = "workplanSource" ->
               LET topRecord == find(b.workplanSources, a.topLevelId)
               IN  IF topRecord = Null THEN Null
                   ELSE workplanSourceRoot(topRecord, isBoardPlan, b, a)
          [] a.topLevel = "goal" ->
               LET topRecord == find(b.goals, a.topLevelId)
               IN  IF topRecord = Null THEN Null
                   ELSE goalNode(topRecord, isBoardPlan, b, a)
          [] a.topLevel = "objective" ->
               LET topRecord == find(b.objectives, a.topLevelId)
               IN  IF topRecord = Null THEN Null
                   ELSE objectiveNode(topRecord, isBoardPlan, b, a)
          [] a.topLevel = "activity" ->
               LET topRecord == find(b.activities, a.topLevelId)
               IN  IF topRecord = Null THEN Null
                   ELSE activityRoot(topRecord, isBoardPlan, b, a)
          [] OTHER -> Null

\* "Post-processing based on whether it's a Board Plan and the bottom level"
\* A faulty variant of postProcessed that prunes only outside Board Plan mode
postProcessed_BoardPlanUnpruned(node, isBoardPlan, bottomLevel) ==
    IF bottomLevel # "activity"
    THEN IF isBoardPlan THEN addInheritedActivityDetails(node, bottomLevel)
         ELSE removeChildrenAtBottomLevel(addInheritedTTA(node, bottomLevel),
                                          bottomLevel)
    ELSE node

postProcessed(node, isBoardPlan, bottomLevel) ==
    IF bottomLevel # "activity"
    THEN removeChildrenAtBottomLevel(
             IF isBoardPlan THEN addInheritedActivityDetails(node, bottomLevel)
                            ELSE addInheritedTTA(node, bottomLevel),
             bottomLevel)
    ELSE node

\* the value returned, given the node the switch has left
returned(node, b, a) ==
    IF node = Null \/ a.topLevel = "activity" THEN node
    ELSE postProcessed(node, isBoardPlanBuild(b, a), a.bottomLevel)

buildHierarchicalRecordList(b, a) == returned(constructed(b, a), b, a)

-----------------------------------------------------------------------------
(* The super-compact codec *)

RECURSIVE toSuperCompactFormat(_)
toSuperCompactFormat(node) ==
    IF node = Null THEN Null
    ELSE LET withTta ==
                 IF has(node, "ttaSessions") /\ Len(node.ttaSessions) > 0
                 THEN [tta |-> [i \in 1..Len(node.ttaSessions) |->
                                    node.ttaSessions[i].summary]]
                 ELSE <<>>
             withAd ==
                 IF has(node, "activityDetails") /\ Len(node.activityDetails) > 0
                 THEN [ad |-> [i \in 1..Len(node.activityDetails) |->
                                  [n |-> node.activityDetails[i].recordName,
                                   c |-> node.activityDetails[i].comments,
                                   s |-> node.activityDetails[i].status]]]
                 ELSE <<>>
             comments == IF has(node, "activityComments")
                         THEN node.activityComments ELSE ""
             status == IF has(node, "activityStatus")
                       THEN node.activityStatus ELSE ""
             withAcAs ==
                 IF comments # "" \/ status # ""
                 THEN [ac |-> comments, as |-> status]
                 ELSE <<>>
         IN  [t |-> node.type, n |-> node.recordName,
              c |-> [i \in 1..Len(node.children) |->
                        toSuperCompactFormat(node.children[i])]]
             @@ withTta @@ withAd @@ withAcAs

\* A faulty variant of fromSuperCompactFormat that does not restore
\* activityDetails
RECURSIVE fromSuperCompactFormat_NoDetails(_)
fromSuperCompactFormat_NoDetails(cmp) ==
    IF cmp = Null THEN Null
    ELSE [tableId |-> Null, recordId |-> Null,
          type |-> cmp.t, recordName |-> cmp.n,
          children |-> [i \in 1..Len(cmp.c) |->
                           fromSuperCompactFormat_NoDetails(cmp.c[i])],
          ttaSessions |-> IF has(cmp, "tta")
                          THEN [i \in 1..Len(cmp.tta) |->
                                   [id |-> Null, summary |-> cmp.tta[i]]]
                          ELSE <<>>]
         @@ (IF has(cmp, "ac") THEN [activityComments |-> cmp.ac] ELSE <<>>)
         @@ (IF has(cmp, "as") THEN [activityStatus |-> cmp.as] ELSE <<>>)

RECURSIVE fromSuperCompactFormat(_)
fromSuperCompactFormat(cmp) ==
    IF cmp = Null THEN Null
    ELSE [tableId |-> Null, recordId |-> Null,
          type |-> cmp.t, recordName |-> cmp.n,
          children |-> [i \in 1..Len(cmp.c) |-> fromSuperCompactFormat(cmp.c[i])],
          ttaSessions |-> IF has(cmp, "tta")
                          THEN [i \in 1..Len(cmp.tta) |->
                                   [id |-> Null, summary |-> cmp.tta[i]]]
                          ELSE <<>>]
         @@ (IF has(cmp, "ad")
             THEN [activityDetails |-> [i \in 1..Len(cmp.ad) |->
                                          [recordName |-> cmp.ad[i].n,
                                           comments |-> cmp.ad[i].c,
                                           status |-> cmp.ad[i].s]]]
             ELSE <<>>)
         @@ (IF has(cmp, "ac") THEN [activityComments |-> cmp.ac] ELSE <<>>)
         @@ (IF has(cmp, "as") THEN [activityStatus |-> cmp.as] ELSE <<>>)

-----------------------------------------------------------------------------
(* The inputs: the record collections the caller passes in and the date    *)
(* range of the report form.                                               *)

SourceIds == <<"ws1", "ws2">>
GoalIds == <<"g1", "g2">>
ObjectiveIds == <<"o1", "o2">>
ActivityIds == <<"a1", "a2">>
SessionIds == SubSeq(<<"t1", "t2", "t3", "t4">>, 1, NumSessions)
MissingId == "recMissing"

Range(seq) == {seq[i] : i \in 1..Len(seq)}

Dates == 1..MaxDate
DateCells == {NoDate} \cup Dates

\* a link cell over the ids: no link, one link, or all of them in order
LinkCells(ids) == {<<>>, ids} \cup {<<ids[i]>> : i \in 1..Len(ids)}

SourceNames == {Str_FY24BoardPlan, Str_AnnualPlan, Str_Empty}
Texts == {"", "x"}

\* record.name is the primary cell as a string
Source(id, name) == [id |-> id, name |-> name, primary |-> name]
Goal(id, ws) == [id |-> id, name |-> <<"G">>, primary |-> <<"G">>, sources |-> ws]
Objective(id, gs, ws) == [id |-> id, name |-> <<"O">>, primary |-> <<"O">>, goals |-> gs, sources |-> ws]
Activity(id, os, s, e, c, st) == [id |-> id, name |-> <<"A">>, primary |-> <<"A">>, objectives |-> os, start |-> s, end |-> e, comments |-> c, status |-> st]
Session(id, ls, d, sm) == [id |-> id, links |-> ls, date |-> d, summary |-> sm]

Ranges == [startDate : DateCells, endDate : DateCells]
NoRange == [startDate |-> NoDate, endDate |-> NoDate]

\* The centre: ws1 "Annual Plan" > g1 > o1, o2; ws2 "FY24 Board Plan" > g2 > o2;
\* o1 > a1, a2; o2 > a2; the sessions alternate between a1+a2 on the last day
\* and a2 on day 1.
CentreSources == <<Source("ws1", Str_AnnualPlan), Source("ws2", Str_FY24BoardPlan)>>
CentreGoals == <<Goal("g1", <<"ws1">>), Goal("g2", <<"ws2">>)>>
CentreObjectives == <<Objective("o1", <<"g1">>, <<>>), Objective("o2", <<"g1", "g2">>, <<"ws1">>)>>
CentreActivities == <<Activity("a1", <<"o1">>, 1, MaxDate, "", ""), Activity("a2", <<"o1", "o2">>, 1, 1, "x", "x")>>
CentreSession(i) ==
    IF i % 2 = 1 THEN Session(SessionIds[i], ActivityIds, MaxDate, "x")
                 ELSE Session(SessionIds[i], <<"a2">>, 1, "")
CentreSessions == [i \in 1..NumSessions |-> CentreSession(i)]

\* the link fields passed to the build, each a field object with the id its
\* cells are read by
LinkFields ==
    [goalsLinkField |-> [id |-> "sources"],
     objectivesLinkField |-> [id |-> "goals"],
     objectivesToSourcesLinkField |-> [id |-> "sources"],
     activitiesLinkField |-> [id |-> "objectives"],
     ttaSessionsLinkField |-> [id |-> "links"]]

Centre ==
    [workplanSources |-> CentreSources, goals |-> CentreGoals,
     objectives |-> CentreObjectives, activities |-> CentreActivities,
     ttaSessions |-> CentreSessions, fields |-> LinkFields]

\* the hierarchy varies: the source names, the links of g1 and of o1
HierarchyBases ==
    { [Centre EXCEPT
         !.workplanSources = <<Source("ws1", n1), Source("ws2", n2)>>,
         !.goals = <<Goal("g1", g1), Goal("g2", <<"ws2">>)>>,
         !.objectives = <<Objective("o1", og, ow), Objective("o2", <<"g1", "g2">>, <<"ws1">>)>>] :
        n1 \in SourceNames, n2 \in {Str_AnnualPlan, Str_FY24BoardPlan},
        g1 \in LinkCells(SourceIds),
        og \in LinkCells(GoalIds), ow \in LinkCells(SourceIds) }

\* the links of the activities and of the sessions vary
LinkBases ==
    { [Centre EXCEPT
         !.activities = <<Activity("a1", l1, 1, MaxDate, "", ""), Activity("a2", l2, 1, 1, "x", "x")>>,
         !.ttaSessions = [i \in 1..NumSessions |-> [CentreSession(i) EXCEPT !.links = tl[i]]]] :
        l1 \in {<<"o1">>, ObjectiveIds}, l2 \in LinkCells(ObjectiveIds),
        tl \in [1..NumSessions -> LinkCells(ActivityIds)] }

\* the texts vary: comments and status of the activities, summaries of the sessions
TextBases ==
    { [Centre EXCEPT
         !.activities = <<Activity("a1", <<"o1">>, 1, MaxDate, c1, s1), Activity("a2", <<"o1", "o2">>, 1, 1, c2, s2)>>,
         !.ttaSessions = [i \in 1..NumSessions |-> [CentreSession(i) EXCEPT !.summary = sm[i]]]] :
        c1 \in Texts, s1 \in Texts, c2 \in Texts, s2 \in Texts,
        sm \in [1..NumSessions -> Texts] }

\* the dates of activity a1 vary
ActivityDateBases ==
    { [Centre EXCEPT
         !.activities = <<Activity("a1", <<"o1">>, s, e, "", ""), Activity("a2", <<"o1", "o2">>, 1, 1, "x", "x")>>] :
        s \in DateCells, e \in DateCells }

\* the dates of the sessions vary
SessionDateBases ==
    { [Centre EXCEPT
         !.ttaSessions = [i \in 1..NumSessions |-> [CentreSession(i) EXCEPT !.date = d[i]]]] :
        d \in [1..NumSessions -> DateCells] }

\* source ws1 has goal g1 and the directly linked objective o1, whose goal
\* links vary; a1 is the activity of o1 only and has a session of its own
OrphanBases ==
    { [Centre EXCEPT
         !.workplanSources = <<Source("ws1", n1), Source("ws2", Str_FY24BoardPlan)>>,
         !.objectives = <<Objective("o1", og, <<"ws1">>), Objective("o2", <<"g1", "g2">>, <<"ws1">>)>>,
         !.activities = <<Activity("a1", <<"o1">>, 1, MaxDate, "x", ""), Activity("a2", <<"o2">>, 1, 1, "", "x")>>,
         !.ttaSessions = [i \in 1..NumSessions |->
                            [CentreSession(i) EXCEPT
                                !.links = IF i % 2 = 1 THEN <<"a1">> ELSE <<"a2">>]]] :
        n1 \in {Str_AnnualPlan, Str_FY24BoardPlan}, og \in LinkCells(GoalIds) }

TopLevels == {"workplanSource", "goal", "objective", "activity", "other"}
BottomLevels == Range(Levels)

idsOf(topLevel) ==
    CASE topLevel = "workplanSource" -> Range(SourceIds)
      [] topLevel = "goal" -> Range(GoalIds)
      [] topLevel = "objective" -> Range(ObjectiveIds)
      [] topLevel = "activity" -> Range(ActivityIds)
      [] OTHER -> {SourceIds[1]}

\* the selections: a record of the level's collection or an id that is not in it
Selections ==
    { [topLevel |-> tl[1], topLevelId |-> tl[2], bottomLevel |-> bl] :
        tl \in UNION { {<<t, id>> : id \in idsOf(t) \cup {MissingId}} : t \in TopLevels },
        bl \in BottomLevels }

NoCall == [topLevel |-> "", topLevelId |-> "", bottomLevel |-> "",
           startDate |-> NoDate, endDate |-> NoDate]

-----------------------------------------------------------------------------
(* The state of the two user interfaces before anything is selected *)

\* report requests the model lets the user start
MaxRequests == 2

\* poll callbacks of one request that may await their query at a time
MaxInFlight == 2

RequestIds == 1..MaxRequests

\* useState('') of topLevel, topLevelId and bottomLevel
FormUnset == [topLevel |-> "", topLevelId |-> "", bottomLevel |-> ""]

\* useState(false), useState('') and useState(''): no report is shown, and
\* request number 0 stands for the empty string
ReportIdle == [isGenerating |-> FALSE, generatedReport |-> 0, reportRequestId |-> 0]

\* a report request that was not started: no createRecordsAsync call, no
\* record in the Report Requests table, no interval, no timeout
NoRequest == [create |-> "none", status |-> "none", interval |-> "none",
              timer |-> FALSE, inflight |-> 0]

NoRequests == [r \in RequestIds |-> NoRequest]

\* useState(null) and useState([]) of the selector; null is written ""
PickerEmpty ==
    [selectedWorkplanSource |-> "", selectedGoals |-> <<>>,
     selectedObjectives |-> <<>>, selectedActivities |-> <<>>]

UiIdle ==
    /\ form = FormUnset /\ report = ReportIdle
    /\ requests = NoRequests /\ picker = PickerEmpty

-----------------------------------------------------------------------------
(* The state machine *)

Init ==
    /\ \/ /\ base \in HierarchyBases \cup LinkBases \cup TextBases \cup OrphanBases
          /\ range = NoRange
       \/ base \in ActivityDateBases \cup SessionDateBases /\ range \in Ranges
    /\ phase = "idle"
    /\ call = NoCall
    /\ root = Null
    /\ result = Null
    /\ compact = Null
    /\ restored = Null
    /\ UiIdle

\* one report request: buildHierarchicalRecordList on the base.  root keeps the
\* tree as the switch leaves it, before post-processing.
Build ==
    /\ phase = "idle"
    /\ \E sel \in Selections :
        LET a == [topLevel |-> sel.topLevel, topLevelId |-> sel.topLevelId,
                  bottomLevel |-> sel.bottomLevel,
                  startDate |-> range.startDate, endDate |-> range.endDate]
        IN  /\ call' = a
            /\ root' = constructed(base, a)
            /\ result' = returned(root', base, a)
    /\ phase' = "built"
    /\ UNCHANGED <<base, range, compact, restored>>
    /\ UNCHANGED uiVars

Encode ==
    /\ phase = "built"
    /\ compact' = toSuperCompactFormat(result)
    /\ phase' = "encoded"
    /\ UNCHANGED <<base, range, call, root, result, restored>>
    /\ UNCHANGED uiVars

Decode ==
    /\ phase = "encoded"
    /\ restored' = fromSuperCompactFormat(compact)
    /\ phase' = "decoded"
    /\ UNCHANGED <<base, range, call, root, result, compact>>
    /\ UNCHANGED uiVars

Next == Build \/ Encode \/ Decode

Spec == Init /\ [][Next]_vars

-----------------------------------------------------------------------------
(* Vocabulary of the properties *)

built == phase # "idle"

RECURSIVE NodesOf(_)
NodesOf(n) ==
    IF n = Null THEN {}
    ELSE {n} \cup UNION {NodesOf(n.children[i]) : i \in 1..Len(n.children)}

\* x with tableId, recordId and every session id replaced by null
RECURSIVE WithNullIds(_)
WithNullIds(n) ==
    [k \in DOMAIN n |->
        CASE k \in {"tableId", "recordId"} -> Null
          [] k = "ttaSessions" ->
               [i \in 1..Len(n.ttaSessions) |->
                   [id |-> Null, summary |-> n.ttaSessions[i].summary]]
          [] k = "children" ->
               [i \in 1..Len(n.children) |-> WithNullIds(n.children[i])]
          [] OTHER -> n[k]]

AboveActivity == {"workplanSource", "goal", "objective"}

-----------------------------------------------------------------------------
(* C1: for every tree x returned by buildHierarchicalRecordList,           *)
(* fromSuperCompactFormat(toSuperCompactFormat(x)) equals x with tableId,  *)
(* recordId and every session id replaced by null, the set of fields       *)
(* present on each node included.                                          *)
C1_RoundTrip ==
    (phase = "decoded" /\ result # Null) => restored = WithNullIds(result)

(* C2: when bottomLevel is not 'activity', every node of the returned tree *)
(* whose type is bottomLevel has children = [].                            *)
C2_BottomLevelPruned ==
    (built /\ result # Null /\ call.bottomLevel # "activity") =>
        \A n \in NodesOf(result) : n.type = call.bottomLevel => n.children = <<>>

\* a goal with children was pruned below the root
C2_Witness ==
    /\ built /\ result # Null /\ call.bottomLevel = "goal"
    /\ call.topLevel = "workplanSource"
    /\ \E n \in NodesOf(root) : n.type = "goal" /\ n.children # <<>>
    /\ \E n \in NodesOf(result) : n.type = "goal"

\* the pairs <<node of the returned tree, the node at the same place of the
\* tree before post-processing>>
RECURSIVE PairsOf(_, _)
PairsOf(n, before) ==
    {<<n, before>>}
    \cup UNION {PairsOf(n.children[i], before.children[i]) : i \in 1..Len(n.children)}

SessionIdsOn(n) ==
    IF has(n, "ttaSessions") THEN {n.ttaSessions[i].id : i \in 1..Len(n.ttaSessions)}
    ELSE {}

\* the session ids attached to the activity descendants of a node
ActivitySessionIds(before) ==
    UNION {SessionIdsOn(d) : d \in {x \in NodesOf(before) : x.type = "activity"}}

(* C3: in a non-Board-Plan build with bottomLevel above 'activity', the    *)
(* session ids on every bottom-level node of the result are exactly the    *)
(* session ids attached to the activity descendants of that node in the    *)
(* tree before pruning.                                                    *)
C3_RollupComplete ==
    (/\ built /\ result # Null
     /\ call.bottomLevel \in AboveActivity
     /\ ~isBoardPlanBuild(base, call)) =>
        \A p \in PairsOf(result, root) :
            p[1].type = call.bottomLevel =>
                SessionIdsOn(p[1]) = ActivitySessionIds(p[2])

\* a goal received sessions of two activities below it, one session being
\* attached to both
C3_Witness ==
    /\ built /\ result # Null /\ call.bottomLevel = "goal"
    /\ ~isBoardPlanBuild(base, call)
    /\ \E p \in PairsOf(result, root) :
        /\ p[1].type = "goal"
        /\ Cardinality(SessionIdsOn(p[1])) >= 2
        /\ \E d1, d2 \in {x \in NodesOf(p[2]) : x.type = "activity"} :
            /\ d1.recordId # d2.recordId
            /\ SessionIdsOn(d1) \cap SessionIdsOn(d2) # {}
            /\ SessionIdsOn(d1) # SessionIdsOn(d2)

\* the collection a topLevel selects
CollectionOf(topLevel) ==
    CASE topLevel = "workplanSource" -> base.workplanSources
      [] topLevel = "goal" -> base.goals
      [] topLevel = "objective" -> base.objectives
      [] topLevel = "activity" -> base.activities
      [] OTHER -> <<>>

TopRecordExists ==
    \E i \in 1..Len(CollectionOf(call.topLevel)) :
        CollectionOf(call.topLevel)[i].id = call.topLevelId

(* C4: buildHierarchicalRecordList returns null whenever topLevelId is not *)
(* the id of a record of the collection topLevel selects, and whenever     *)
(* topLevel is none of the four levels.                                    *)
C4_NullWhenTopMissing ==
    (built /\ (call.topLevel \notin Range(Levels) \/ ~TopRecordExists)) =>
        result = Null

\* an unknown topLevel with the id of an existing record gave null
C4_Witness ==
    /\ built /\ result = Null
    /\ call.topLevel \notin Range(Levels)
    /\ call.topLevelId \in Range(SourceIds)

\* the date rule for activities as stated: no bound set, or both dates present
\* and the activity's span meets the range, bounds included
ActivityPasses(activity) ==
    \/ range.startDate = NoDate /\ range.endDate = NoDate
    \/ /\ activity.start \in Dates /\ activity.end \in Dates
       /\ range.startDate \in Dates => activity.end >= range.startDate
       /\ range.endDate \in Dates => activity.start <= range.endDate

ActivityRecordsOf(b) == {b.activities[i] : i \in 1..Len(b.activities)}

ChildIds(n) == [i \in 1..Len(n.children) |-> n.children[i].recordId]

IdsOf(records) == [i \in 1..Len(records) |-> records[i].id]

(* C5: isActivityInDateRange includes an activity iff no range bound is    *)
(* set, or the activity has both dates and ends on or after the range      *)
(* start (if set) and starts on or before the range end (if set); the      *)
(* same filter decides every activity placed in the tree: the children of  *)
(* an objective are its linked activities that pass, an activity is        *)
(* returned as the top record iff it passes.                               *)
C5_ActivityDateFilter ==
    /\ \A activity \in ActivityRecordsOf(base) :
         isActivityInDateRange(activity, range.startDate, range.endDate)
             <=> ActivityPasses(activity)
    /\ built =>
         /\ \A n \in NodesOf(root) :
              n.type = "objective" =>
                 LET test(activity) == /\ n.recordId \in Range(activity.objectives)
                                       /\ ActivityPasses(activity)
                 IN  ChildIds(n) = IdsOf(SelectSeq(base.activities, test))
         /\ (call.topLevel = "activity" /\ TopRecordExists) =>
              (root # Null <=> ActivityPasses(find(base.activities, call.topLevelId)))

\* an activity that ends on the very day the range starts is in the tree, and
\* the range has an end as well
C5_Witness ==
    /\ built /\ root # Null
    /\ range.startDate \in Dates /\ range.endDate \in Dates
    /\ \E activity \in ActivityRecordsOf(base) :
        /\ activity.end = range.startDate
        /\ \E n \in NodesOf(root) :
            n.type = "activity" /\ n.recordId = activity.id

SessionRecordsOf(b) == {b.ttaSessions[i] : i \in 1..Len(b.ttaSessions)}

\* the date rule for sessions as stated
SessionPasses(session) ==
    \/ range.startDate = NoDate /\ range.endDate = NoDate
    \/ /\ session.date \in Dates
       /\ range.startDate \in Dates => session.date >= range.startDate
       /\ range.endDate \in Dates => session.date <= range.endDate

LeavesWithSessions(tree) ==
    {n \in NodesOf(tree) : n.type = "activity" /\ has(n, "ttaSessions")}

(* C6: the ttaSessions of an activity leaf hold a session iff the session  *)
(* is linked to the activity and either no range bound is set or the       *)
(* session has a date within the bounds that are set (bounds included).    *)
C6_SessionFilter ==
    built =>
        \A n \in LeavesWithSessions(root) \cup LeavesWithSessions(result) :
            SessionIdsOn(n) =
                {session.id : session \in
                    {x \in SessionRecordsOf(base) :
                        n.recordId \in Range(x.links) /\ SessionPasses(x)}}

\* with a range set, a leaf holds a session dated on the range start and lacks a
\* linked session that has no date
C6_Witness ==
    /\ built /\ range.startDate \in Dates
    /\ \E n \in LeavesWithSessions(result) :
        /\ \E x \in SessionRecordsOf(base) :
            /\ x.date = range.startDate /\ x.id \in SessionIdsOn(n)
        /\ \E x \in SessionRecordsOf(base) :
            /\ x.date = NoDate /\ n.recordId \in Range(x.links)
            /\ x.id \notin SessionIdsOn(n)

\* the date of a session of the base, by its id
SessionDate(id) == find(base.ttaSessions, id).date

(* C7: on every node of a returned tree that carries ttaSessions, activity *)
(* leaves and bottom-level nodes that received sessions by rollup alike,   *)
(* the sessions are in ascending order of session date.                    *)
C7_SessionsAscending ==
    (built /\ result # Null) =>
        \A n \in NodesOf(result) :
            has(n, "ttaSessions") =>
                \A i, j \in 1..Len(n.ttaSessions) :
                    (/\ i < j
                     /\ SessionDate(n.ttaSessions[i].id) \in Dates
                     /\ SessionDate(n.ttaSessions[j].id) \in Dates) =>
                        SessionDate(n.ttaSessions[i].id) <= SessionDate(n.ttaSessions[j].id)

\* the part of C7 about the activity leaves alone
C7_LeafSessionsAscending ==
    (built /\ result # Null) =>
        \A n \in LeavesWithSessions(result) :
            \A i, j \in 1..Len(n.ttaSessions) :
                i < j => timeOf(SessionDate(n.ttaSessions[i].id))
                            <= timeOf(SessionDate(n.ttaSessions[j].id))

GoalsLinkedTo(sourceId) ==
    LET test(goal) == \E k \in 1..Len(goal.sources) : goal.sources[k] = sourceId
    IN  SelectSeq(base.goals, test)

ObjectivesDirectlyLinkedTo(sourceId) ==
    LET test(obj) == \E k \in 1..Len(obj.sources) : obj.sources[k] = sourceId
    IN  SelectSeq(base.objectives, test)

(* C8: for topLevel = 'workplanSource': if no goal is linked to the source *)
(* the children of the root, before pruning, are exactly the objectives    *)
(* whose secondary link field contains the source id and the tree has no   *)
(* goal node; if a goal is linked, the children are exactly those goals.   *)
C8_SkipLevel ==
    (built /\ call.topLevel = "workplanSource" /\ root # Null) =>
        IF GoalsLinkedTo(call.topLevelId) = <<>>
        THEN /\ ChildIds(root) = IdsOf(ObjectivesDirectlyLinkedTo(call.topLevelId))
             /\ \A i \in 1..Len(root.children) : root.children[i].type = "objective"
             /\ \A n \in NodesOf(root) \cup NodesOf(result) : n.type # "goal"
        ELSE /\ ChildIds(root) = IdsOf(GoalsLinkedTo(call.topLevelId))
             /\ \A i \in 1..Len(root.children) : root.children[i].type = "goal"

\* a source without goals whose two directly linked objectives are the children
\* of the root
C8_Witness ==
    /\ built /\ call.topLevel = "workplanSource" /\ root # Null
    /\ GoalsLinkedTo(call.topLevelId) = <<>>
    /\ Len(root.children) = 2
    /\ root.children[1].type = "objective"
    /\ root.children[1].children # <<>>

BoardPlanNames == {Str_FY24BoardPlan}

IsBoardPlanSourceId(id) ==
    \E i \in 1..Len(base.workplanSources) :
        /\ base.workplanSources[i].id = id
        /\ base.workplanSources[i].name \in BoardPlanNames

\* the sources reached from a record by following its parent links upward
SourcesAboveGoal(goalId) ==
    UNION {Range(g.sources) : g \in {x \in Range(base.goals) : x.id = goalId}}

SourcesAboveObjective(objectiveId) ==
    UNION { Range(o.sources) \cup UNION {SourcesAboveGoal(g) : g \in Range(o.goals)} :
            o \in {x \in Range(base.objectives) : x.id = objectiveId} }

SourcesAboveActivity(activityId) ==
    UNION { UNION {SourcesAboveObjective(o) : o \in Range(act.objectives)} :
            act \in {x \in Range(base.activities) : x.id = activityId} }

AncestrySources ==
    CASE call.topLevel = "workplanSource" -> {call.topLevelId}
      [] call.topLevel = "goal" -> SourcesAboveGoal(call.topLevelId)
      [] call.topLevel = "objective" -> SourcesAboveObjective(call.topLevelId)
      [] call.topLevel = "activity" -> SourcesAboveActivity(call.topLevelId)
      [] OTHER -> {}

(* C9: for every topLevel, the build runs in Board Plan mode iff the       *)
(* ancestry chain of the top record includes a workplan source whose name  *)
(* contains 'board plan', case-insensitively.                              *)
C9_BoardPlanIffAncestry ==
    (built /\ TopRecordExists) =>
        (isBoardPlanBuild(base, call)
            <=> \E id \in AncestrySources : IsBoardPlanSourceId(id))

\* the part of C9 about the levels above 'activity'
C9_BoardPlanIffAncestryAboveActivity ==
    (built /\ TopRecordExists /\ call.topLevel \in AboveActivity) =>
        (isBoardPlanBuild(base, call)
            <=> \E id \in AncestrySources : IsBoardPlanSourceId(id))

ActivityRecordOf(n) == find(base.activities, n.recordId)

(* C10: in a build rooted at a workplan source with bottomLevel =          *)
(* 'activity', every activity node carries activityStatus and              *)
(* activityComments (the record's texts, empty when it has none) and no    *)
(* ttaSessions if the source name contains 'board plan', and ttaSessions   *)
(* and neither of the two otherwise.                                       *)
C10_UniformLeafShape ==
    (/\ built /\ result # Null
     /\ call.topLevel = "workplanSource" /\ call.bottomLevel = "activity") =>
        \A n \in NodesOf(result) :
            n.type = "activity" =>
                IF IsBoardPlanSourceId(call.topLevelId)
                THEN /\ has(n, "activityStatus") /\ has(n, "activityComments")
                     /\ ~has(n, "ttaSessions")
                     /\ n.activityStatus = ActivityRecordOf(n).status
                     /\ n.activityComments = ActivityRecordOf(n).comments
                ELSE /\ has(n, "ttaSessions")
                     /\ ~has(n, "activityStatus") /\ ~has(n, "activityComments")

\* a Board Plan tree with a leaf whose record has neither comments nor status and
\* a leaf whose record has both
C10_Witness ==
    /\ built /\ result # Null
    /\ call.topLevel = "workplanSource" /\ call.bottomLevel = "activity"
    /\ IsBoardPlanSourceId(call.topLevelId)
    /\ \E n \in NodesOf(result) :
        n.type = "activity" /\ n.activityStatus = "" /\ n.activityComments = ""
    /\ \E n \in NodesOf(result) :
        n.type = "activity" /\ n.activityStatus = "x" /\ n.activityComments = "x"

TopActivity == find(base.activities, call.topLevelId)

(* C11: buildHierarchicalRecordList('activity', id, 'activity', ...) for   *)
(* an existing activity returns a single node of type activity with        *)
(* children = [] and no wrapping ancestor iff the activity passes the      *)
(* date-range filter, and returns no node otherwise.                       *)
C11_SingleActivityNode ==
    (/\ built /\ call.topLevel = "activity" /\ call.bottomLevel = "activity"
     /\ TopRecordExists) =>
        IF ActivityPasses(TopActivity)
        THEN /\ result # Null
             /\ result.type = "activity"
             /\ result.recordId = call.topLevelId
             /\ result.children = <<>>
        ELSE result = Null

\* with a range set, an activity that passes was returned as a bare leaf
C11_Witness ==
    /\ built /\ call.topLevel = "activity" /\ call.bottomLevel = "activity"
    /\ range.startDate \in Dates
    /\ result # Null /\ result.type = "activity" /\ result.children = <<>>

(* C12: a null result is unambiguous: for a valid topLevel, null is        *)
(* returned only if no record with id topLevelId exists in the             *)
(* collection; whenever the top record exists the result is a tree.        *)
C12_NullOnlyWhenMissing ==
    (built /\ call.topLevel \in Range(Levels) /\ TopRecordExists) =>
        result # Null

\* the part of C12 about the levels above 'activity'
C12_NullOnlyWhenMissingAboveActivity ==
    (built /\ call.topLevel \in AboveActivity /\ TopRecordExists) =>
        result # Null

\* the position of a node type in the hierarchy, 1 for the top
LevelOf(type) == CHOOSE i \in 1..Len(Levels) : Levels[i] = type

BottomNotAboveTop ==
    /\ call.topLevel \in Range(Levels)
    /\ LevelOf(call.bottomLevel) >= LevelOf(call.topLevel)

\* no node at or below the bottom level has children
NothingBelowBottomLevel ==
    \A n \in NodesOf(result) :
        LevelOf(n.type) >= LevelOf(call.bottomLevel) => n.children = <<>>

\* a source without linked goals is rolled up to 'goal'
SkipLevelToGoal ==
    /\ call.topLevel = "workplanSource" /\ call.bottomLevel = "goal"
    /\ GoalsLinkedTo(call.topLevelId) = <<>>

NodesWithSessions(tree) == {n \in NodesOf(tree) : has(n, "ttaSessions")}

(* C14: the sessions given having distinct ids, the ttaSessions of every   *)
(* node of the returned tree hold no two entries with the same id, also    *)
(* when a session is linked to several activities below the same           *)
(* bottom-level node.                                                      *)
C14_NoDuplicateOnNode ==
    (built /\ result # Null) =>
        \A n \in NodesWithSessions(result) :
            \A i, j \in 1..Len(n.ttaSessions) :
                n.ttaSessions[i].id = n.ttaSessions[j].id => i = j

\* an objective received a session that two of its activities carried
C14_Witness ==
    /\ built /\ result # Null /\ call.bottomLevel = "objective"
    /\ \E p \in PairsOf(result, root) :
        /\ p[1].type = "objective" /\ has(p[1], "ttaSessions")
        /\ \E d1, d2 \in LeavesWithSessions(p[2]) :
            /\ d1.recordId # d2.recordId
            /\ SessionIdsOn(d1) \cap SessionIdsOn(d2) # {}
            /\ SessionIdsOn(d1) \cap SessionIdsOn(d2) \subseteq SessionIdsOn(p[1])

(* C15: each session appears only once in the hierarchy: no session id     *)
(* occurs in the ttaSessions of two different nodes of the returned tree   *)
(* (stated for the selections whose bottomLevel is not above topLevel).    *)
C15_SessionOnOneNode ==
    (built /\ result # Null /\ BottomNotAboveTop) =>
        \A n1, n2 \in NodesWithSessions(result) :
            n1 # n2 => SessionIdsOn(n1) \cap SessionIdsOn(n2) = {}

NonActivityNodes(tree) == {n \in NodesOf(tree) : n.type # "activity"}

(* C16: activityStatus and activityComments occur only on nodes of type    *)
(* activity; activityDetails occurs only on nodes that are not activities  *)
(* and whose type equals bottomLevel, and only in Board Plan mode.         *)
C16_DetailFieldsPlacement ==
    (built /\ result # Null) =>
        \A n \in NodesOf(result) :
            /\ (has(n, "activityStatus") \/ has(n, "activityComments")) =>
                   n.type = "activity"
            /\ has(n, "activityDetails") =>
                   /\ n.type # "activity"
                   /\ n.type = call.bottomLevel
                   /\ isBoardPlanBuild(base, call)

\* a Board Plan tree rolled up to 'goal': the goal carries activityDetails,
\* and the leaves it was collected from carried the two activity fields
C16_Witness ==
    /\ built /\ result # Null /\ call.bottomLevel = "goal"
    /\ isBoardPlanBuild(base, call)
    /\ \E n \in NodesOf(result) :
        n.type = "goal" /\ has(n, "activityDetails") /\ n.activityDetails # <<>>
    /\ \E n \in NodesOf(root) : n.type = "activity" /\ has(n, "activityStatus")

(* C17: every node of the returned tree whose type is strictly above       *)
(* bottomLevel has empty ttaSessions and no activityDetails.               *)
C17_AboveBottomLevelBare ==
    (built /\ result # Null) =>
        \A n \in NodesOf(result) :
            LevelOf(n.type) < LevelOf(call.bottomLevel) =>
                /\ has(n, "ttaSessions") /\ n.ttaSessions = <<>>
                /\ ~has(n, "activityDetails")

\* a tree rolled up to 'objective' whose objective received sessions, under
\* a root above the bottom level
C17_Witness ==
    /\ built /\ result # Null /\ call.bottomLevel = "objective"
    /\ LevelOf(result.type) < LevelOf("objective")
    /\ \E n \in NodesOf(result) :
        n.type = "objective" /\ has(n, "ttaSessions") /\ n.ttaSessions # <<>>

MaxOf(S) == IF S = {} THEN 0 ELSE CHOOSE x \in S : \A y \in S : y <= x

\* the number of nodes on the longest path from n down to a leaf
RECURSIVE Depth(_)
Depth(n) == 1 + MaxOf({Depth(n.children[i]) : i \in 1..Len(n.children)})

ChildTypes(n) == {n.children[i].type : i \in 1..Len(n.children)}

TypeHierarchy(tree) ==
    \A n \in NodesOf(tree) :
        CASE n.type = "workplanSource" ->
                 ChildTypes(n) \subseteq {"goal"} \/ ChildTypes(n) \subseteq {"objective"}
          [] n.type = "goal" -> ChildTypes(n) \subseteq {"objective"}
          [] n.type = "objective" -> ChildTypes(n) \subseteq {"activity"}
          [] n.type = "activity" -> n.children = <<>>
          [] OTHER -> FALSE

(* C18: every tree the build makes, before and after pruning, is at most   *)
(* four levels deep and follows the type hierarchy: the children of a      *)
(* workplanSource node are all goals or all objectives (never mixed), of   *)
(* a goal objectives, of an objective activities, and an activity node     *)
(* has no children.                                                        *)
C18_DepthAndTypeHierarchy ==
    (built /\ result # Null) =>
        /\ Depth(root) <= Len(Levels) /\ Depth(result) <= Len(Levels)
        /\ TypeHierarchy(root) /\ TypeHierarchy(result)

\* a tree of full depth was returned: source, goal, objective, activity
C18_Witness ==
    /\ built /\ result # Null /\ Depth(result) = Len(Levels)
    /\ result.type = "workplanSource"
    /\ \E i \in 1..Len(result.children) :
        /\ result.children[i].type = "goal"
        /\ \E j \in 1..Len(result.children[i].children) :
            result.children[i].children[j].children # <<>>

DetailsOn(n) == IF has(n, "activityDetails") THEN n.activityDetails ELSE <<>>

ActivityLeaves(tree) == {n \in NodesOf(tree) : n.type = "activity"}

DetailOf(leaf) ==
    [recordName |-> leaf.recordName,
     comments |-> ActivityRecordOf(leaf).comments,
     status |-> ActivityRecordOf(leaf).status]

(* C19: in Board Plan mode with bottomLevel above 'activity', the          *)
(* activityDetails of every bottom-level node list each descendant         *)
(* activity that passed the date filter exactly once (distinct by id),     *)
(* with its recordName, comments and status; activities with empty         *)
(* comments and status and activities reachable through more than one      *)
(* objective included.                                                     *)
C19_DetailsListEachActivityOnce ==
    (/\ built /\ result # Null
     /\ isBoardPlanBuild(base, call)
     /\ call.bottomLevel \in AboveActivity) =>
        \A p \in PairsOf(result, root) :
            p[1].type = call.bottomLevel =>
                /\ Len(DetailsOn(p[1])) =
                       Cardinality({d.recordId : d \in ActivityLeaves(p[2])})
                /\ \A d \in ActivityLeaves(p[2]) :
                       \E i \in 1..Len(DetailsOn(p[1])) :
                           DetailsOn(p[1])[i] = DetailOf(d)

-----------------------------------------------------------------------------
(* Builds with link fields missing *)

\* every choice of the link fields that are passed; the others are missing
FieldChoices ==
    { [f \in DOMAIN LinkFields |-> IF f \in given THEN LinkFields[f] ELSE Null] :
        given \in SUBSET DOMAIN LinkFields }

FieldBases == { [Centre EXCEPT !.fields = fs] : fs \in FieldChoices }

InitFields ==
    /\ base \in FieldBases /\ range = NoRange
    /\ phase = "idle"
    /\ call = NoCall
    /\ root = Null
    /\ result = Null
    /\ compact = Null
    /\ restored = Null
    /\ UiIdle

SpecFields == InitFields /\ [][Next]_vars

Missing(field) == base.fields[field] = Null

NodesOfType(tree, type) == {n \in NodesOf(tree) : n.type = type}

(* C20: when a link field passed to the build is missing, so that reading  *)
(* it yields no links, the build still returns a tree or null (a tree      *)
(* whenever the top record above 'activity' exists) and the level read     *)
(* through that field has no linked records: no goal under a source, no    *)
(* objective under a goal, no objective directly under a source, no        *)
(* activity under an objective, no session on any node.                    *)
C20_MissingLinkFieldMeansNoLinks ==
    built =>
        /\ result = Null \/ result.type = call.topLevel
        /\ (call.topLevel \in AboveActivity /\ TopRecordExists) => result # Null
        /\ Missing("goalsLinkField") =>
               \A n \in NodesOfType(root, "workplanSource") : "goal" \notin ChildTypes(n)
        /\ Missing("objectivesLinkField") =>
               \A n \in NodesOfType(root, "goal") : n.children = <<>>
        /\ Missing("objectivesToSourcesLinkField") =>
               \A n \in NodesOfType(root, "workplanSource") :
                   "objective" \notin ChildTypes(n)
        /\ Missing("activitiesLinkField") =>
               \A n \in NodesOfType(root, "objective") : n.children = <<>>
        /\ Missing("ttaSessionsLinkField") =>
               \A n \in NodesOf(root) \cup NodesOf(result) : SessionIdsOn(n) = {}

\* goalsLinkField alone is missing: a source whose goal cells link to it got
\* its directly linked objectives as children, with their activities
C20_Witness ==
    /\ built /\ call.topLevel = "workplanSource" /\ result # Null
    /\ Missing("goalsLinkField")
    /\ \A f \in DOMAIN LinkFields \ {"goalsLinkField"} : ~Missing(f)
    /\ GoalsLinkedTo(call.topLevelId) # <<>>
    /\ \E n \in NodesOfType(root, "objective") : n.children # <<>>

-----------------------------------------------------------------------------
(* The compact form, key by key *)

encoded == phase \in {"encoded", "decoded"}

\* the pairs <<node, its compact form>> over a tree and its encoding
RECURSIVE CompactPairsOf(_, _)
CompactPairsOf(n, cmp) ==
    {<<n, cmp>>}
    \cup UNION {CompactPairsOf(n.children[i], cmp.c[i]) : i \in 1..Len(n.children)}

NonEmptyText(n, k) == has(n, k) /\ n[k] # ""

NonEmptyList(n, k) == has(n, k) /\ n[k] # <<>>

(* C21: toSuperCompactFormat omits every key whose source field is empty   *)
(* or absent: tta is present iff the node has a session, ad iff            *)
(* activityDetails is non-empty, ac iff activityComments is non-empty, as  *)
(* iff activityStatus is non-empty; t, n and c are always present.         *)
C21_KeysIffNonEmpty ==
    (encoded /\ result # Null) =>
        \A p \in CompactPairsOf(result, compact) :
            /\ {"t", "n", "c"} \subseteq DOMAIN p[2]
            /\ has(p[2], "tta") <=> NonEmptyList(p[1], "ttaSessions")
            /\ has(p[2], "ad") <=> NonEmptyList(p[1], "activityDetails")
            /\ has(p[2], "ac") <=> NonEmptyText(p[1], "activityComments")
            /\ has(p[2], "as") <=> NonEmptyText(p[1], "activityStatus")

\* the part of C21 that does not tell ac from as: the two keys are written
\* together, iff one of the two texts is non-empty
C21_KeysIffNonEmptyPairwise ==
    (encoded /\ result # Null) =>
        \A p \in CompactPairsOf(result, compact) :
            /\ {"t", "n", "c"} \subseteq DOMAIN p[2]
            /\ has(p[2], "tta") <=> NonEmptyList(p[1], "ttaSessions")
            /\ has(p[2], "ad") <=> NonEmptyList(p[1], "activityDetails")
            /\ has(p[2], "ac") <=> has(p[2], "as")
            /\ has(p[2], "ac") <=>
                   (\/ NonEmptyText(p[1], "activityComments")
                    \/ NonEmptyText(p[1], "activityStatus"))

-----------------------------------------------------------------------------
(* Orders *)

Concat(seqs) == flatten(seqs)

\* the session lists of the activity leaves of a subtree, depth first, in
\* child order
RECURSIVE DepthFirstSessions(_)
DepthFirstSessions(n) ==
    IF n.type = "activity"
    THEN IF has(n, "ttaSessions") THEN n.ttaSessions ELSE <<>>
    ELSE Concat([i \in 1..Len(n.children) |-> DepthFirstSessions(n.children[i])])

\* ss from position i on, without the entries whose id occurs earlier in ss
RECURSIVE FirstOccurrencesFrom(_, _)
FirstOccurrencesFrom(ss, i) ==
    IF i > Len(ss) THEN <<>>
    ELSE (IF \A j \in 1..(i - 1) : ss[j].id # ss[i].id THEN <<ss[i]>> ELSE <<>>)
         \o FirstOccurrencesFrom(ss, i + 1)

ObjectivesLinkedToGoal(goalId) ==
    LET test(obj) == goalId \in Range(obj.goals)
    IN  SelectSeq(base.objectives, test)

ActivitiesUnder(objectiveId) ==
    LET test(activity) ==
            objectiveId \in Range(activity.objectives) /\ ActivityPasses(activity)
    IN  SelectSeq(base.activities, test)

\* the records a node's children stand for, in the order of their collection
ExpectedChildIds(n) ==
    CASE n.type = "workplanSource" ->
             IF GoalsLinkedTo(n.recordId) # <<>>
             THEN IdsOf(GoalsLinkedTo(n.recordId))
             ELSE IdsOf(ObjectivesDirectlyLinkedTo(n.recordId))
      [] n.type = "goal" -> IdsOf(ObjectivesLinkedToGoal(n.recordId))
      [] n.type = "objective" -> IdsOf(ActivitiesUnder(n.recordId))
      [] OTHER -> <<>>

(* C24: the children of every node appear in the order in which the        *)
(* matching records occur in their input collection, and a record linked   *)
(* to several parents in the tree is a child of each of them: before       *)
(* pruning the children of a node are exactly its linked records in        *)
(* collection order, and the returned tree keeps them or has none.         *)
C24_ChildrenInCollectionOrder ==
    (built /\ result # Null) =>
        /\ \A n \in NodesOf(root) : ChildIds(n) = ExpectedChildIds(n)
        /\ \A p \in PairsOf(result, root) :
               p[1].children = <<>> \/ ChildIds(p[1]) = ChildIds(p[2])

\* a returned tree in which a goal has two objectives and one objective is
\* a child of two goals
C24_Witness ==
    /\ built /\ result # Null /\ call.bottomLevel = "activity"
    /\ \E n \in NodesOfType(result, "goal") : Len(n.children) = 2
    /\ \E n1, n2 \in NodesOfType(result, "goal") :
        /\ n1.recordId # n2.recordId
        /\ Range(ChildIds(n1)) \cap Range(ChildIds(n2)) # {}

(* C25: the compact form is a normal form: encoding the decoded compact    *)
(* form gives the compact form back, so decoding after encoding a second   *)
(* time gives the same tree as the first time; and null encodes to null    *)
(* and decodes to null.                                                    *)
C25_CompactNormalForm ==
    /\ encoded => (result = Null <=> compact = Null)
    /\ phase = "decoded" =>
          /\ compact = Null <=> restored = Null
          /\ toSuperCompactFormat(restored) = compact
          /\ fromSuperCompactFormat(toSuperCompactFormat(restored)) = restored

\* a Board Plan tree with rolled-up details went through the codec
C25_Witness ==
    /\ phase = "decoded" /\ result # Null
    /\ \E p \in CompactPairsOf(result, compact) :
        has(p[2], "ad") /\ Len(p[2].ad) >= 2

\* the objectives linked to the source directly and to none of its goals
ObjectivesBesideGoals(sourceId) ==
    {o \in Range(base.objectives) :
        /\ sourceId \in Range(o.sources)
        /\ \A g \in Range(GoalsLinkedTo(sourceId)) : g.id \notin Range(o.goals)}

\* the activities below an objective of a goal of the source
ActivitiesBelowGoals(sourceId) ==
    {act \in ActivityRecordsOf(base) :
        \E o \in Range(base.objectives), g \in Range(GoalsLinkedTo(sourceId)) :
            o.id \in Range(act.objectives) /\ g.id \in Range(o.goals)}

SessionIdsLinkedTo(acts) ==
    {x.id : x \in {y \in Range(base.ttaSessions) :
                      \E act \in acts : act.id \in Range(y.links)}}

(* C26: for topLevel = 'workplanSource' with at least one linked goal, an  *)
(* objective linked to the source through the secondary link field only,   *)
(* and to none of the source's goals, is not in the tree, and its          *)
(* activities and their sessions do not contribute to any rollup: every    *)
(* activity, session and activity detail in the tree comes from an         *)
(* activity below a goal of the source.                                    *)
C26_DirectObjectivesIgnoredBesideGoals ==
    (/\ built /\ call.topLevel = "workplanSource" /\ result # Null
     /\ GoalsLinkedTo(call.topLevelId) # <<>>) =>
        \A n \in NodesOf(root) \cup NodesOf(result) :
            /\ n.type = "objective" =>
                   \A o \in ObjectivesBesideGoals(call.topLevelId) : n.recordId # o.id
            /\ n.type = "activity" =>
                   n.recordId \in {act.id : act \in ActivitiesBelowGoals(call.topLevelId)}
            /\ SessionIdsOn(n) \subseteq
                   SessionIdsLinkedTo(ActivitiesBelowGoals(call.topLevelId))
            /\ \A i \in 1..Len(DetailsOn(n)) :
                   \E act \in ActivitiesBelowGoals(call.topLevelId) :
                       /\ DetailsOn(n)[i].comments = act.comments
                       /\ DetailsOn(n)[i].status = act.status

\* the source has a goal and, beside it, a directly linked objective whose
\* activity has a session no other activity has; the tree was rolled up
C26_Witness ==
    /\ built /\ call.topLevel = "workplanSource" /\ result # Null
    /\ call.bottomLevel \in {"workplanSource", "goal"}
    /\ GoalsLinkedTo(call.topLevelId) # <<>>
    /\ \E o \in ObjectivesBesideGoals(call.topLevelId) :
        \E act \in ActivityRecordsOf(base) :
            /\ Range(act.objectives) = {o.id}
            /\ SessionIdsLinkedTo({act}) \ SessionIdsLinkedTo(ActivityRecordsOf(base) \ {act}) # {}
    /\ \E n \in NodesOf(result) : SessionIdsOn(n) # {} \/ DetailsOn(n) # <<>>

-----------------------------------------------------------------------------
(* The report form: generating a report and polling for it                 *)
(* (src/unnamed/part_002, handleGenerateReport and pollForCompletion)      *)

\* the report requests whose handleGenerateReport reached createRecordsAsync
Started == Cardinality({r \in RequestIds : requests[r].create # "none"})

\* disabled={!topLevel || !topLevelId || !bottomLevel}, inside the box that is
\* rendered when !isGenerating && !generatedReport
GenerateEnabled ==
    /\ ~report.isGenerating /\ report.generatedReport = 0
    /\ form.topLevel # "" /\ form.topLevelId # "" /\ form.bottomLevel # ""

\* clearInterval(pollInterval)
clearInterval(r) == [requests[r] EXCEPT !.interval = "cleared"]

\* handleGenerateReport up to its await: the tree is built from the form and
\* the Report Requests table is looked up; without the table the handler
\* ends with isGenerating false again
handleGenerateReport ==
    /\ GenerateEnabled
    /\ Started < MaxRequests
    /\ LET a == [topLevel |-> form.topLevel, topLevelId |-> form.topLevelId,
                 bottomLevel |-> form.bottomLevel,
                 startDate |-> range.startDate, endDate |-> range.endDate]
       IN  /\ call' = a
           /\ root' = constructed(base, a)
           /\ result' = returned(root', base, a)
    /\ phase' = "built"
    /\ \E tableFound \in BOOLEAN :
        IF tableFound
        THEN /\ report' = [report EXCEPT !.isGenerating = TRUE]
             /\ requests' = [requests EXCEPT ![Started + 1].create = "pending"]
        ELSE UNCHANGED <<report, requests>>
    /\ UNCHANGED <<base, range, compact, restored, form, picker>>

\* createRecordsAsync resolves with the id of the new record:
\* setReportRequestId and pollForCompletion (setInterval, setTimeout)
CreateReturnsRecord(r) ==
    /\ requests[r].create = "pending"
    /\ requests' = [requests EXCEPT ![r] =
                       [create |-> "done", status |-> "New", interval |-> "running",
                        timer |-> TRUE, inflight |-> 0]]
    /\ report' = [report EXCEPT !.reportRequestId = r]
    /\ UNCHANGED <<buildVars, form, picker>>

\* createRecordsAsync resolves with nothing: the if is skipped
CreateReturnsNothing(r) ==
    /\ requests[r].create = "pending"
    /\ requests' = [requests EXCEPT ![r].create = "done"]
    /\ UNCHANGED <<buildVars, form, report, picker>>

\* createRecordsAsync rejects: the catch of handleGenerateReport
CreateRejects(r) ==
    /\ requests[r].create = "pending"
    /\ requests' = [requests EXCEPT ![r].create = "done"]
    /\ report' = [report EXCEPT !.isGenerating = FALSE]
    /\ UNCHANGED <<buildVars, form, picker>>

\* the interval fires: the callback starts and awaits selectRecordsAsync
PollTick(r) ==
    /\ requests[r].interval = "running"
    /\ requests[r].inflight < MaxInFlight
    /\ requests' = [requests EXCEPT ![r].inflight = @ + 1]
    /\ UNCHANGED <<buildVars, form, report, picker>>

\* a callback resumes and finds status 'Ready' with a report
PollSeesReady(r) ==
    /\ requests[r].inflight > 0
    /\ requests[r].status = "Ready"
    /\ report' = [report EXCEPT !.generatedReport = r, !.isGenerating = FALSE]
    /\ requests' = [requests EXCEPT ![r] = [clearInterval(r) EXCEPT !.inflight = @ - 1]]
    /\ UNCHANGED <<buildVars, form, picker>>

\* a callback resumes and finds status 'Error'
PollSeesError(r) ==
    /\ requests[r].inflight > 0
    /\ requests[r].status = "Error"
    /\ report' = [report EXCEPT !.isGenerating = FALSE]
    /\ requests' = [requests EXCEPT ![r] = [clearInterval(r) EXCEPT !.inflight = @ - 1]]
    /\ UNCHANGED <<buildVars, form, picker>>

\* a callback resumes and the request is still 'New'
PollSeesNew(r) ==
    /\ requests[r].inflight > 0
    /\ requests[r].status = "New"
    /\ requests' = [requests EXCEPT ![r].inflight = @ - 1]
    /\ UNCHANGED <<buildVars, form, report, picker>>

\* selectRecordsAsync rejects: the catch of the callback
PollThrows(r) ==
    /\ requests[r].inflight > 0
    /\ report' = [report EXCEPT !.isGenerating = FALSE]
    /\ requests' = [requests EXCEPT ![r] = [clearInterval(r) EXCEPT !.inflight = @ - 1]]
    /\ UNCHANGED <<buildVars, form, picker>>

\* setTimeout(() => clearInterval(pollInterval), 300000)
TimeoutFires(r) ==
    /\ requests[r].timer
    /\ requests' = [requests EXCEPT ![r] = [clearInterval(r) EXCEPT !.timer = FALSE]]
    /\ UNCHANGED <<buildVars, form, report, picker>>

\* the automation behind the Report Requests table writes the report
RequestBecomesReady(r) ==
    /\ requests[r].status = "New"
    /\ requests' = [requests EXCEPT ![r].status = "Ready"]
    /\ UNCHANGED <<buildVars, form, report, picker>>

\* the automation behind the Report Requests table reports an error
RequestBecomesError(r) ==
    /\ requests[r].status = "New"
    /\ requests' = [requests EXCEPT ![r].status = "Error"]
    /\ UNCHANGED <<buildVars, form, report, picker>>

\* the Generate Another Report button, rendered when generatedReport && !isGenerating
GenerateAnotherReport ==
    /\ report.generatedReport # 0 /\ ~report.isGenerating
    /\ report' = [report EXCEPT !.generatedReport = 0, !.reportRequestId = 0]
    /\ UNCHANGED <<buildVars, form, requests, picker>>

CreateSettles(r) ==
    CreateReturnsRecord(r) \/ CreateReturnsNothing(r) \/ CreateRejects(r)

PollResumes(r) ==
    PollSeesReady(r) \/ PollSeesError(r) \/ PollSeesNew(r) \/ PollThrows(r)

NextReport ==
    \/ handleGenerateReport
    \/ GenerateAnotherReport
    \/ \E r \in RequestIds :
        \/ CreateReturnsRecord(r) \/ CreateReturnsNothing(r) \/ CreateRejects(r)
        \/ PollTick(r)
        \/ PollSeesReady(r) \/ PollSeesError(r) \/ PollSeesNew(r) \/ PollThrows(r)
        \/ TimeoutFires(r)
        \/ RequestBecomesReady(r) \/ RequestBecomesError(r)

\* the forms a report is generated from
FilledForms ==
    { [topLevel |-> "goal", topLevelId |-> "g1", bottomLevel |-> "goal"],
      [topLevel |-> "workplanSource", topLevelId |-> "ws2", bottomLevel |-> "activity"] }

InitReport ==
    /\ base = Centre /\ range = NoRange
    /\ phase = "idle"
    /\ call = NoCall
    /\ root = Null
    /\ result = Null
    /\ compact = Null
    /\ restored = Null
    /\ form \in FilledForms
    /\ report = ReportIdle
    /\ requests = NoRequests
    /\ picker = PickerEmpty

SpecReport == InitReport /\ [][NextReport]_vars

\* promises settle, intervals tick and timeouts fire; whether and when the
\* request is completed, and what the user clicks, is left open
SpecReportFair ==
    /\ SpecReport
    /\ \A r \in RequestIds :
        /\ WF_vars(CreateSettles(r))
        /\ WF_vars(PollTick(r))
        /\ WF_vars(PollResumes(r))
        /\ WF_vars(TimeoutFires(r))

(* C27: every report generation eventually leaves the generating state:    *)
(* once isGenerating is true it eventually becomes false, whether the      *)
(* request reaches 'Ready' or 'Error', record creation fails or returns    *)
(* no record, polling throws, or the polling timeout fires.                *)
C27_GeneratingEventuallyEnds ==
    report.isGenerating ~> ~report.isGenerating

\* the newest request that has a record in the Report Requests table
NewestRequest ==
    MaxOf({r \in RequestIds : requests[r].status # "none"})

(* C28: the report shown and the isGenerating flag are only ever changed   *)
(* by a poll of the most recently created report request, poll callbacks   *)
(* still in flight when their interval is cleared included.                *)
C28_OnlyNewestRequestPollWrites ==
    [][\A r \in RequestIds :
           (/\ PollResumes(r)
            /\ \/ report'.generatedReport # report.generatedReport
               \/ report'.isGenerating # report.isGenerating)
           => r = NewestRequest]_vars

-----------------------------------------------------------------------------
(* The report form: choosing the top level, the record and the bottom      *)
(* level (src/unnamed/part_002 lines 254-318)                              *)

\* useMemo: goals.some(goal => linked && linked.some(l => l.id === topLevelId)),
\* true when no workplan source is selected
selectedWorkplanSourceHasGoals(f, b) ==
    IF f.topLevel # "workplanSource" \/ f.topLevelId = "" THEN TRUE
    ELSE \E i \in 1..Len(b.goals) :
             linksTo(getCellValue(b.goals[i], b.fields.goalsLinkField), f.topLevelId)

\* the values of the options, in the order they are shown
getBottomLevelOptions(f, b) ==
    CASE f.topLevel = "workplanSource" ->
             IF selectedWorkplanSourceHasGoals(f, b)
             THEN <<"goal", "objective", "activity">>
             ELSE <<"objective", "activity">>
      [] f.topLevel = "goal" -> <<"goal", "objective", "activity">>
      [] f.topLevel = "objective" -> <<"objective", "activity">>
      [] f.topLevel = "activity" -> <<"activity">>
      [] OTHER -> <<>>

\* A faulty variant of resetBottomLevel that keeps the bottom level
resetBottomLevel_Keeps(f, b) == f

\* the useMemo that runs with every render: a bottom level that is no longer
\* an option is reset
resetBottomLevel(f, b) ==
    IF f.bottomLevel # "" /\ f.bottomLevel \notin Range(getBottomLevelOptions(f, b))
    THEN [f EXCEPT !.bottomLevel = ""]
    ELSE f

\* the radio buttons of the top level
handleTopLevelChange(value) ==
    /\ form' = resetBottomLevel(
                   [topLevel |-> value, topLevelId |-> "", bottomLevel |-> ""], base)
    /\ UNCHANGED <<buildVars, report, requests, picker>>

\* onClick of an option of the record dropdown, shown when topLevel is set;
\* the options are the records of the level's collection
RecordOptionClick(id) ==
    /\ form.topLevel # ""
    /\ id \in Range(IdsOf(CollectionOf(form.topLevel)))
    /\ form' = resetBottomLevel(
                   [form EXCEPT !.topLevelId = id, !.bottomLevel = ""], base)
    /\ UNCHANGED <<buildVars, report, requests, picker>>

\* the radio buttons of the bottom level, shown when topLevel && topLevelId
handleBottomLevelChange(value) ==
    /\ form.topLevel # "" /\ form.topLevelId # ""
    /\ value \in Range(getBottomLevelOptions(form, base))
    /\ form' = resetBottomLevel([form EXCEPT !.bottomLevel = value], base)
    /\ UNCHANGED <<buildVars, report, requests, picker>>

\* useRecords(goalsTable) delivers changed goal records and the form renders
GoalRecordsChange(goals) ==
    /\ goals # base.goals
    /\ base' = [base EXCEPT !.goals = goals]
    /\ form' = resetBottomLevel(form, base')
    /\ UNCHANGED <<range, phase, call, root, result, compact, restored>>
    /\ UNCHANGED <<report, requests, picker>>

\* the goal records the table may hold: the links of each goal vary
GoalRecordChoices ==
    { <<Goal("g1", l1), Goal("g2", l2)>> :
        l1 \in LinkCells(SourceIds), l2 \in LinkCells(SourceIds) }

NextForm ==
    \/ \E value \in Range(Levels) : handleTopLevelChange(value)
    \/ \E id \in Range(SourceIds) \cup Range(GoalIds)
                 \cup Range(ObjectiveIds) \cup Range(ActivityIds) :
           RecordOptionClick(id)
    \/ \E value \in Range(Levels) : handleBottomLevelChange(value)
    \/ \E goals \in GoalRecordChoices : GoalRecordsChange(goals)

InitForm ==
    /\ base = Centre /\ range = NoRange
    /\ phase = "idle"
    /\ call = NoCall
    /\ root = Null
    /\ result = Null
    /\ compact = Null
    /\ restored = Null
    /\ UiIdle

SpecForm == InitForm /\ [][NextForm]_vars

(* C29: after any sequence of top-level changes, record selections,        *)
(* bottom-level selections and changes of the goal records, whenever       *)
(* Generate Report is enabled all three of topLevel, topLevelId and        *)
(* bottomLevel are set, bottomLevel is an option offered for topLevel      *)
(* (never a type above topLevel), and bottomLevel is not 'goal' when the   *)
(* selected workplan source has no linked goals.                           *)
C29_EnabledMeansValidSelection ==
    GenerateEnabled =>
        /\ form.topLevel \in Range(Levels)
        /\ form.topLevelId # ""
        /\ form.bottomLevel \in Range(Levels) \ {"workplanSource"}
        /\ LevelOf(form.bottomLevel) >= LevelOf(form.topLevel)
        /\ ~(/\ form.topLevel = "workplanSource" /\ form.bottomLevel = "goal"
             /\ GoalsLinkedTo(form.topLevelId) = <<>>)

\* Generate Report is enabled for a workplan source rolled up to 'goal',
\* after the goal records changed
C29_Witness ==
    /\ GenerateEnabled
    /\ form.topLevel = "workplanSource" /\ form.bottomLevel = "goal"
    /\ base.goals # CentreGoals

-----------------------------------------------------------------------------
(* The cascading selector: workplan source, goals, objectives, activities  *)
(* (src/frontend/index.js lines 119-225). A selectedWorkplanSource of null *)
(* is written "", the value the select shows for it.                       *)

\* records.filter(record => linked && linked.some(link => selected.includes(link.id)))
linkedToSome(records, field, selected) ==
    SelectSeq(records,
              LAMBDA record : \E id \in Range(selected) :
                                  linksTo(getCellValue(record, field), id))

filteredGoals(p, b) ==
    IF p.selectedWorkplanSource = "" \/ b.fields.goalsLinkField = Null THEN <<>>
    ELSE linkedToSome(b.goals, b.fields.goalsLinkField, <<p.selectedWorkplanSource>>)

filteredObjectives(p, b) ==
    IF p.selectedGoals = <<>> \/ b.fields.objectivesLinkField = Null THEN <<>>
    ELSE linkedToSome(b.objectives, b.fields.objectivesLinkField, p.selectedGoals)

filteredActivities(p, b) ==
    IF p.selectedObjectives = <<>> \/ b.fields.activitiesLinkField = Null THEN <<>>
    ELSE linkedToSome(b.activities, b.fields.activitiesLinkField, p.selectedObjectives)

\* prev.includes(id) ? prev.filter(x => x !== id) : [...prev, id]
toggle(prev, id) ==
    IF id \in Range(prev) THEN SelectSeq(prev, LAMBDA x : x # id)
    ELSE Append(prev, id)

\* onChange of the select: an option of workplanSources or the empty option
handleWorkplanSourceChange(value) ==
    /\ value \in Range(IdsOf(base.workplanSources)) \cup {""}
    /\ value # picker.selectedWorkplanSource
    /\ picker' = [selectedWorkplanSource |-> value, selectedGoals |-> <<>>,
                  selectedObjectives |-> <<>>, selectedActivities |-> <<>>]
    /\ UNCHANGED <<buildVars, form, report, requests>>

\* A faulty variant of handleGoalToggle that keeps the selections below
handleGoalToggle_KeepsBelow(goalId) ==
    /\ goalId \in Range(IdsOf(filteredGoals(picker, base)))
    /\ picker' = [picker EXCEPT !.selectedGoals = toggle(@, goalId)]
    /\ UNCHANGED <<buildVars, form, report, requests>>

\* the checkboxes of filteredGoals; a toggle always changes the length
handleGoalToggle(goalId) ==
    /\ goalId \in Range(IdsOf(filteredGoals(picker, base)))
    /\ picker' = [picker EXCEPT !.selectedGoals = toggle(@, goalId),
                                !.selectedObjectives = <<>>,
                                !.selectedActivities = <<>>]
    /\ UNCHANGED <<buildVars, form, report, requests>>

\* the checkboxes of filteredObjectives, shown when a goal is selected
handleObjectiveToggle(objectiveId) ==
    /\ objectiveId \in Range(IdsOf(filteredObjectives(picker, base)))
    /\ picker' = [picker EXCEPT !.selectedObjectives = toggle(@, objectiveId),
                                !.selectedActivities = <<>>]
    /\ UNCHANGED <<buildVars, form, report, requests>>

\* the checkboxes of filteredActivities, shown when an objective is selected
handleActivityToggle(activityId) ==
    /\ activityId \in Range(IdsOf(filteredActivities(picker, base)))
    /\ picker' = [picker EXCEPT !.selectedActivities = toggle(@, activityId)]
    /\ UNCHANGED <<buildVars, form, report, requests>>

NextPicker ==
    \/ \E value \in Range(SourceIds) \cup {""} : handleWorkplanSourceChange(value)
    \/ \E goalId \in Range(GoalIds) : handleGoalToggle(goalId)
    \/ \E objectiveId \in Range(ObjectiveIds) : handleObjectiveToggle(objectiveId)
    \/ \E activityId \in Range(ActivityIds) : handleActivityToggle(activityId)

\* the fixed records: the links of g2, of o1 and of a1 vary
PickerBases ==
    { [Centre EXCEPT
         !.goals = <<Goal("g1", <<"ws1">>), Goal("g2", l2)>>,
         !.objectives = <<Objective("o1", og, <<>>), Objective("o2", <<"g1", "g2">>, <<"ws1">>)>>,
         !.activities = <<Activity("a1", oa, 1, MaxDate, "", ""), Activity("a2", <<"o1", "o2">>, 1, 1, "x", "x")>>] :
        l2 \in LinkCells(SourceIds), og \in LinkCells(GoalIds),
        oa \in LinkCells(ObjectiveIds) }

InitPicker ==
    /\ base \in PickerBases /\ range = NoRange
    /\ phase = "idle"
    /\ call = NoCall
    /\ root = Null
    /\ result = Null
    /\ compact = Null
    /\ restored = Null
    /\ UiIdle

SpecPicker == InitPicker /\ [][NextPicker]_vars

\* the record of a collection with the id
RecordById(records, id) == CHOOSE r \in Range(records) : r.id = id

\* every selected id is a record of the collection linked, through the field,
\* to one of the ids selected above
SelectedUnder(selected, records, field, above) ==
    \A id \in Range(selected) :
        /\ id \in Range(IdsOf(records))
        /\ \E up \in Range(above) : up \in Range(RecordById(records, id)[field])

SelectionConsistent(p, b) ==
    /\ SelectedUnder(p.selectedGoals, b.goals, "sources", <<p.selectedWorkplanSource>>)
    /\ SelectedUnder(p.selectedObjectives, b.objectives, "goals", p.selectedGoals)
    /\ SelectedUnder(p.selectedActivities, b.activities, "objectives", p.selectedObjectives)

\* a change of one level leaves every level below it empty
ChangeClearsBelow ==
    /\ picker'.selectedWorkplanSource # picker.selectedWorkplanSource
           => picker'.selectedGoals = <<>>
    /\ (\/ picker'.selectedWorkplanSource # picker.selectedWorkplanSource
        \/ picker'.selectedGoals # picker.selectedGoals)
           => picker'.selectedObjectives = <<>>
    /\ (\/ picker'.selectedWorkplanSource # picker.selectedWorkplanSource
        \/ picker'.selectedGoals # picker.selectedGoals
        \/ picker'.selectedObjectives # picker.selectedObjectives)
           => picker'.selectedActivities = <<>>

(* C30: in the cascading selector, after any sequence of workplan-source   *)
(* changes and goal, objective and activity toggles over fixed records,    *)
(* every selected goal is linked to the selected workplan source, every    *)
(* selected objective to at least one selected goal and every selected     *)
(* activity to at least one selected objective; and a step that changes a  *)
(* level leaves all selections below it empty.                             *)
C30_CascadeStaysConsistent ==
    [][SelectionConsistent(picker, base)' /\ ChangeClearsBelow]_vars

\* two goals, an objective and an activity are selected
C30_Witness ==
    /\ Len(picker.selectedGoals) = 2
    /\ picker.selectedObjectives # <<>>
    /\ picker.selectedActivities # <<>>

=============================================================================
